---- MODULE Spec2Model ----
(***************************************************************************)
(* Support-ticket triage pipeline: src/main.py drives, per ticket, the     *)
(* stages of src/triage_engine.py, src/guardian.py, src/opportunity.py and *)
(* src/response_generator.py.  The text-completion service and the email   *)
(* service are the environment: each call either raises or returns.        *)
(*                                                                         *)
(* Texts are sequences of tokens, a token being an indivisible fragment of *)
(* text (a code fence, a run of whitespace, a brace, one "key": value      *)
(* member of a JSON object, ...).  str.strip, str.startswith, str.split    *)
(* and json.loads are computed on those sequences.                         *)
(***************************************************************************)
EXTENDS Integers, Sequences, FiniteSets, TLC

VARIABLES
    tickets,   \* main: the rows of tickets_input.csv, in file order
    agents,    \* main: the list loaded from agents.json
    env,       \* os.environ: which alert recipient addresses are configured
    idx,       \* main: position of the loop over the rows
    pc,        \* position inside main / process_ticket
    result,    \* process_ticket: the result dict being built
    results,   \* main: the list of returned results
    calls,     \* every call made to an external service, in order
    unit,      \* a single function applied to a single input (unit harness)
    alerts,    \* every invocation of send_guardian_alert / send_opportunity_alert, in order
    outputs    \* main: what is written after the loop

vars == <<tickets, agents, env, idx, pc, result, results, calls, unit, alerts, outputs>>

(***************************************************************************)
(* Bounds of the model.                                                    *)
(***************************************************************************)
MaxPlainLen == 3    \* tokens of an answer to the priority / routing prompt
MaxShortLen == 2    \* tokens of a short answer to a JSON prompt
MaxScore == 11      \* largest risk_score / confidence the service answers with
MaxTickets == 2     \* rows of tickets_input.csv in a batch run

(***************************************************************************)
(* JSON / Python values, tagged by type.                                   *)
(***************************************************************************)
JInt(n) == [t |-> "int", n |-> n]
JStr(s) == [t |-> "str", s |-> s]
JBool(b) == [t |-> "bool", b |-> b]
JNull == [t |-> "null"]
JArr == [t |-> "array"]

\* dict.get(key, default)
Get(d, k, default) == IF k \in DOMAIN d THEN d[k] ELSE default

\* d[key] = value
Put(d, k, v) == [x \in DOMAIN d \cup {k} |-> IF x = k THEN v ELSE d[x]]

EmptyDict == [x \in {} |-> JNull]

(***************************************************************************)
(* Tokens of text.                                                         *)
(***************************************************************************)
Fence == [c |-> "fence"]                  \* three backticks, the markdown code fence
Tag == [c |-> "json"]                     \* the four letters json
WS == [c |-> "ws"]                        \* a run of whitespace / newlines
LB == [c |-> "{"]
RB == [c |-> "}"]
Word(s) == [c |-> "word", s |-> s]        \* any other run of characters
Member(k, v) == [c |-> "member", k |-> k, v |-> v]  \* "k": v  (v without quotes inside)
QOpen(k) == [c |-> "qopen", k |-> k]      \* "k": "   (a string value opens)
QClose == [c |-> "qclose"]                \* "        (the string value closes)
Scalar(v) == [c |-> "scalar", v |-> v]    \* a JSON value that is no object

\* the characters a token stands for, where a string value quotes them
TokText(tok) ==
    CASE tok.c = "word" -> tok.s
      [] tok.c = "ws" -> " "
      [] tok.c = "fence" -> "<fence>"
      [] OTHER -> tok.c

RECURSIVE Concat(_)
Concat(toks) == IF toks = <<>> THEN "" ELSE TokText(Head(toks)) \o Concat(Tail(toks))

\* str.strip()
RECURSIVE lstrip(_)
lstrip(text) == IF text # <<>> /\ Head(text) = WS THEN lstrip(Tail(text)) ELSE text

RECURSIVE rstrip(_)
rstrip(text) ==
    IF text # <<>> /\ text[Len(text)] = WS THEN rstrip(SubSeq(text, 1, Len(text) - 1)) ELSE text

strip(text) == rstrip(lstrip(text))

\* text.startswith(tok)
startswith(text, tok) == text # <<>> /\ Head(text) = tok

\* index of the first occurrence of tok in text at or after i, Len(text)+1 if none
RECURSIVE find(_, _, _)
find(text, tok, i) ==
    IF i > Len(text) THEN Len(text) + 1
    ELSE IF text[i] = tok THEN i ELSE find(text, tok, i + 1)

\* text.split(sep)[1], for a text that starts with sep
split1(text, sep) ==
    LET j == find(text, sep, 2) IN SubSeq(text, 2, j - 1)

(***************************************************************************)
(* json.loads on a token sequence.                                         *)
(***************************************************************************)
JSONDecodeError(msg) == [kind |-> "error", msg |-> msg]

\* members of an object from position i on; acc is the dict so far
RECURSIVE parse_members(_, _, _)
parse_members(text, i, acc) ==
    IF i > Len(text)
    THEN JSONDecodeError(IF acc = EmptyDict
                         THEN "Expecting property name enclosed in double quotes"
                         ELSE "Expecting ',' delimiter")
    ELSE LET tok == text[i] IN
      CASE tok.c = "ws" -> parse_members(text, i + 1, acc)
        [] tok.c = "member" -> parse_members(text, i + 1, Put(acc, tok.k, tok.v))
        [] tok.c = "qopen" ->
             LET j == find(text, QClose, i + 1) IN
             IF j > Len(text) THEN JSONDecodeError("Unterminated string")
             ELSE parse_members(text, j + 1,
                                Put(acc, tok.k, JStr(Concat(SubSeq(text, i + 1, j - 1)))))
        [] tok.c = "}" ->
             IF lstrip(SubSeq(text, i + 1, Len(text))) = <<>>
             THEN [kind |-> "object", obj |-> acc]
             ELSE JSONDecodeError("Extra data")
        [] OTHER -> JSONDecodeError("Expecting property name enclosed in double quotes")

json_loads(text) ==
    LET s == lstrip(text) IN
    IF s = <<>> THEN JSONDecodeError("Expecting value")
    ELSE CASE Head(s).c = "{" -> parse_members(s, 2, EmptyDict)
           [] Head(s).c = "scalar" ->
                IF lstrip(Tail(s)) = <<>>
                THEN [kind |-> "other", val |-> Head(s).v]
                ELSE JSONDecodeError("Extra data")
           [] OTHER -> JSONDecodeError("Expecting value")

(***************************************************************************)
(* Outcomes of one call to an external service.                            *)
(***************************************************************************)
Raises == [raise |-> TRUE]                       \* the call raised (or returned no content)
Returns(text) == [raise |-> FALSE, text |-> text]

\* the email service: send() raises, or returns a response with a status code
SendRaises == [raise |-> TRUE]
SendReturns(code) == [raise |-> FALSE, status_code |-> code]

(***************************************************************************)
(* triage_engine.py                                                        *)
(***************************************************************************)
ValidPriorities == {"P0", "P1", "P2", "P3"}

\* the text is exactly one of the four level names
is_valid_priority(priority) ==
    Len(priority) = 1 /\ priority[1].c = "word" /\ priority[1].s \in ValidPriorities

\* faulty variant: the fallback ignores the ticket's own priority
priority_fallback_fixed(ticket) == "P2"

\* except-branch of classify_priority: ticket.get('actual_priority', 'P2')
priority_fallback(ticket) == Get(ticket, "actual_priority", "P2")

classify_priority(ticket, outcome) ==
    IF outcome.raise THEN priority_fallback(ticket)
    ELSE LET priority == strip(outcome.text) IN
         IF ~is_valid_priority(priority) THEN "P2" ELSE priority[1].s

DefaultTeam == "Integrations & API Team"

\* faulty variant: any one-word answer passes, configured or not
is_valid_agent_unchecked(agent_name, agent_list) ==
    Len(agent_name) = 1 /\ agent_name[1].c = "word"

\* agent_name in valid_agents
is_valid_agent(agent_name, agent_list) ==
    /\ Len(agent_name) = 1
    /\ agent_name[1].c = "word"
    /\ \E i \in 1..Len(agent_list) : agent_list[i].name = agent_name[1].s

route_to_agent(ticket, agent_list, outcome) ==
    IF outcome.raise THEN DefaultTeam
    ELSE LET agent_name == strip(outcome.text) IN
         IF ~is_valid_agent(agent_name, agent_list) THEN DefaultTeam ELSE agent_name[1].s

(***************************************************************************)
(* guardian.py / opportunity.py: reading the classifier's JSON answer      *)
(***************************************************************************)
\* "Remove markdown code blocks if present", then strip
strip_code_fence(text) ==
    LET t0 == strip(text)
        t1 == IF startswith(t0, Fence) THEN split1(t0, Fence) ELSE t0
        t2 == IF startswith(t0, Fence) /\ startswith(t1, Tag) THEN Tail(t1) ELSE t1
    IN strip(t2)

\* Python's >= between a JSON value and an int raises TypeError unless the value is a number
orderable(v) == v.t \in {"int", "bool"}
py_ge(v, n) == IF v.t = "int" THEN v.n >= n ELSE (IF v.b THEN 1 ELSE 0) >= n

HighRiskThreshold == 7
BusinessIntentThreshold == 6

\* faulty variant: the exception fallback flags the ticket
guardian_zeroed_flagged ==
    [risk_score |-> JInt(0), is_high_risk |-> JBool(TRUE), sentiment |-> JStr("neutral"),
     evidence |-> JStr(""), reasoning |-> JStr("Analysis failed")]

guardian_zeroed ==
    [risk_score |-> JInt(0), is_high_risk |-> JBool(FALSE), sentiment |-> JStr("neutral"),
     evidence |-> JStr(""), reasoning |-> JStr("Analysis failed")]

guardian_parse_fallback(msg) ==
    [risk_score |-> JInt(5), is_high_risk |-> JBool(FALSE), sentiment |-> JStr("neutral"),
     evidence |-> JStr(""), reasoning |-> JStr("JSON parse error: " \o msg)]

\* faulty variant: the response's own is_high_risk is kept when it gives one
set_is_high_risk_trusting(d) ==
    IF "is_high_risk" \in DOMAIN d THEN d
    ELSE Put(d, "is_high_risk", JBool(py_ge(Get(d, "risk_score", JInt(0)), HighRiskThreshold)))

\* result['is_high_risk'] = result.get('risk_score', 0) >= 7
set_is_high_risk(d) ==
    Put(d, "is_high_risk", JBool(py_ge(Get(d, "risk_score", JInt(0)), HighRiskThreshold)))

analyze_churn_risk(outcome) ==
    IF outcome.raise THEN guardian_zeroed
    ELSE LET parsed == json_loads(strip_code_fence(outcome.text)) IN
         IF parsed.kind = "error" THEN guardian_parse_fallback(parsed.msg)
         ELSE IF parsed.kind # "object" THEN guardian_zeroed      \* AttributeError on .get
         ELSE IF ~orderable(Get(parsed.obj, "risk_score", JInt(0)))
              THEN guardian_zeroed                                 \* TypeError on >=
         ELSE set_is_high_risk(parsed.obj)

\* faulty variant: the except branch reports a business intent
opportunity_zeroed_flagged ==
    [has_business_intent |-> JBool(TRUE), intent_type |-> JNull, confidence |-> JInt(0),
     evidence |-> JStr(""), reasoning |-> JStr("Analysis failed")]

opportunity_zeroed ==
    [has_business_intent |-> JBool(FALSE), intent_type |-> JNull, confidence |-> JInt(0),
     evidence |-> JStr(""), reasoning |-> JStr("Analysis failed")]

opportunity_parse_fallback(msg) ==
    [has_business_intent |-> JBool(FALSE), intent_type |-> JNull, confidence |-> JInt(0),
     evidence |-> JStr(""), reasoning |-> JStr("JSON parse error: " \o msg)]

\* faulty variant: the guardian's threshold is used for the opportunity flag
set_has_business_intent_at_7(d) ==
    Put(d, "has_business_intent", JBool(py_ge(Get(d, "confidence", JInt(0)), HighRiskThreshold)))

\* result['has_business_intent'] = result.get('confidence', 0) >= 6
set_has_business_intent(d) ==
    Put(d, "has_business_intent",
        JBool(py_ge(Get(d, "confidence", JInt(0)), BusinessIntentThreshold)))

detect_business_intent(outcome) ==
    IF outcome.raise THEN opportunity_zeroed
    ELSE LET parsed == json_loads(strip_code_fence(outcome.text)) IN
         IF parsed.kind = "error" THEN opportunity_parse_fallback(parsed.msg)
         ELSE IF parsed.kind # "object" THEN opportunity_zeroed   \* AttributeError on .get
         ELSE IF ~orderable(Get(parsed.obj, "confidence", JInt(0)))
              THEN opportunity_zeroed                              \* TypeError on >=
         ELSE set_has_business_intent(parsed.obj)

(***************************************************************************)
(* Alerts.  The value is [raised, called, val]: whether the function       *)
(* raised to its caller, whether it called the email service, and the      *)
(* boolean it returned.                                                    *)
(***************************************************************************)
SuccessCodes == {200, 202}

\* building html_content reads these keys with [] and calls sentiment.title()
guardian_html_ok(guardian_result) ==
    /\ {"risk_score", "sentiment", "evidence", "reasoning"} \subseteq DOMAIN guardian_result
    /\ guardian_result["sentiment"].t = "str"

\* try: send ... except: return False
deliver(send) == IF send.raise THEN FALSE ELSE send.status_code \in SuccessCodes

send_guardian_alert(ticket, guardian_result, kam_email, send) ==
    IF ~kam_email THEN [raised |-> FALSE, called |-> FALSE, val |-> FALSE]
    ELSE IF ~guardian_html_ok(guardian_result)
         THEN [raised |-> TRUE, called |-> FALSE, val |-> FALSE]
    ELSE [raised |-> FALSE, called |-> TRUE, val |-> deliver(send)]

opportunity_html_ok(opportunity_result) ==
    {"confidence", "evidence", "reasoning"} \subseteq DOMAIN opportunity_result

send_opportunity_alert(ticket, opportunity_result, sales_email, send) ==
    IF ~sales_email THEN [raised |-> FALSE, called |-> FALSE, val |-> FALSE]
    ELSE IF ~opportunity_html_ok(opportunity_result)
         THEN [raised |-> TRUE, called |-> FALSE, val |-> FALSE]
    ELSE [raised |-> FALSE, called |-> TRUE, val |-> deliver(send)]

(***************************************************************************)
(* response_generator.py                                                   *)
(***************************************************************************)
\* faulty variant: an empty draft instead of None on failure
generate_draft_response_empty_on_failure(ticket, assigned_agent, outcome) ==
    IF outcome.raise THEN JStr("") ELSE JStr(Concat(strip(outcome.text)))

\* None on failure, else the stripped text (which may be the empty text)
generate_draft_response(ticket, assigned_agent, outcome) ==
    IF outcome.raise THEN JNull ELSE JStr(Concat(strip(outcome.text)))

(***************************************************************************)
(* Inputs.                                                                 *)
(***************************************************************************)
RECURSIVE SeqsUpTo(_, _)
SeqsUpTo(S, n) ==
    IF n = 0 THEN {<<>>}
    ELSE LET shorter == SeqsUpTo(S, n - 1) IN
         shorter \cup {Append(q, x) : q \in shorter, x \in S}

\* a row of tickets_input.csv without the optional actual_priority column
BaseTicket(id) ==
    [ticket_id |-> id, customer_name |-> "Acme", subject |-> "Webhook delays",
     description |-> "Orders sync late", channel |-> "email", mrr |-> 5000,
     timestamp |-> "2024-01-15 09:00"]

\* contents of the actual_priority column: level names, and other text
SuppliedPriorities == {"P0", "P3", "High"}

TicketRows(id) ==
    {BaseTicket(id)} \cup {Put(BaseTicket(id), "actual_priority", p) : p \in SuppliedPriorities}

TeamNames == <<"Integrations & API Team", "Data & Analytics Team", "Compliance & Operations Team">>

AgentsJson == [i \in 1..3 |-> [name |-> TeamNames[i]]]

\* contents of agents.json: the three teams, or a list that lacks the first of them
AgentLists == {AgentsJson, <<[name |-> TeamNames[2]], [name |-> TeamNames[3]]>>}

Envs == [GUARDIAN_EMAIL : BOOLEAN, OPPORTUNITY_EMAIL : BOOLEAN]

\* answers to the priority prompt
PlainPriorityTokens == {WS, Word("P0"), Word("P1"), Word("P3"), Word("p1"), Word("Urgent")}
\* answers to the routing prompt
PlainAgentTokens ==
    {WS, Word(TeamNames[1]), Word(TeamNames[2]), Word("data & analytics team"), Word("Nexus")}

\* JSON objects, member by member: each member absent or present with some value
ScoreValues == (-1)..MaxScore
NumberMembers(k) ==
    {<<>>} \cup {<<Member(k, JInt(n))>> : n \in ScoreValues}
           \cup {<<Member(k, v)>> : v \in {JStr("8"), JNull, JBool(TRUE)}}
FlagMembers(k) == {<<>>, <<Member(k, JBool(TRUE))>>, <<Member(k, JBool(FALSE))>>}
SentimentMembers == {<<>>, <<Member("sentiment", JStr("angry"))>>, <<Member("sentiment", JNull)>>}
IntentMembers ==
    {<<>>, <<Member("intent_type", JStr("upgrade"))>>, <<Member("intent_type", JNull)>>}
\* an evidence string may quote anything, a code fence included
EvidenceMembers ==
    {<<>>, <<Member("evidence", JStr("third incident"))>>, <<QOpen("evidence"), Fence, QClose>>}
ReasoningMembers == {<<>>, <<Member("reasoning", JStr("repeated issues"))>>}

Obj(members) == <<LB>> \o members \o <<RB>>

GuardianObjects ==
    {Obj(a \o b \o c \o d \o e) :
        a \in NumberMembers("risk_score"), b \in FlagMembers("is_high_risk"),
        c \in SentimentMembers, d \in EvidenceMembers, e \in ReasoningMembers}

OpportunityObjects ==
    {Obj(a \o b \o c \o d \o e) :
        a \in FlagMembers("has_business_intent"), b \in IntentMembers,
        c \in NumberMembers("confidence"), d \in EvidenceMembers, e \in ReasoningMembers}

\* the ways a JSON text J comes back
Unfenced(J) == J
Fenced(J) == <<Fence, WS>> \o J \o <<WS, Fence>>
FencedJson(J) == <<Fence, Tag, WS>> \o J \o <<WS, Fence>>
Wrappings(J) ==
    {Unfenced(J), Fenced(J), FencedJson(J),
     <<WS>> \o J \o <<WS>>,                      \* surrounded by blank lines
     <<Word("Here is the analysis:"), WS>> \o J,  \* prose before the JSON
     SubSeq(J, 1, Len(J) - 1),                    \* cut off before the closing brace
     <<Fence, WS, Tag, WS>> \o J \o <<WS, Fence>>}

ShortTokens == {Fence, Tag, WS, LB, RB, Word("Sorry"), Scalar(JNull), Scalar(JInt(8)), Scalar(JArr)}
ShortTexts == SeqsUpTo(ShortTokens, MaxShortLen)

JsonAnswers(objects) == ShortTexts \cup UNION {Wrappings(J) : J \in objects}

Outcomes(texts) == {Raises} \cup {Returns(t) : t \in texts}

\* what the email service does with one request
Sends == {SendRaises, SendReturns(200), SendReturns(202), SendReturns(500)}

\* the analysis records the two analysers build from a JSON object
GuardianRecords == {analyze_churn_risk(Returns(J)) : J \in GuardianObjects}
OpportunityRecords == {detect_business_intent(Returns(J)) : J \in OpportunityObjects}

(***************************************************************************)
(* Unit harness: one function applied to one input.                        *)
(***************************************************************************)
NoUnit == [fn |-> "none"]

UnitClassifyPriority ==
    /\ pc = "unit" /\ unit = NoUnit
    /\ \E ticket \in TicketRows(1), o \in Outcomes(SeqsUpTo(PlainPriorityTokens, MaxPlainLen)) :
          unit' = [fn |-> "classify_priority", ticket |-> ticket, outcome |-> o,
                   ret |-> classify_priority(ticket, o)]
    /\ UNCHANGED <<tickets, agents, env, idx, pc, result, results, calls, alerts, outputs>>

UnitRouteToAgent ==
    /\ pc = "unit" /\ unit = NoUnit
    /\ \E o \in Outcomes(SeqsUpTo(PlainAgentTokens, MaxPlainLen)) :
          unit' = [fn |-> "route_to_agent", outcome |-> o,
                   ret |-> route_to_agent(BaseTicket(1), agents, o)]
    /\ UNCHANGED <<tickets, agents, env, idx, pc, result, results, calls, alerts, outputs>>

UnitAnalyzeChurnRisk ==
    /\ pc = "unit" /\ unit = NoUnit
    /\ \E o \in Outcomes(JsonAnswers(GuardianObjects)) :
          unit' = [fn |-> "analyze_churn_risk", outcome |-> o, ret |-> analyze_churn_risk(o)]
    /\ UNCHANGED <<tickets, agents, env, idx, pc, result, results, calls, alerts, outputs>>

UnitDetectBusinessIntent ==
    /\ pc = "unit" /\ unit = NoUnit
    /\ \E o \in Outcomes(JsonAnswers(OpportunityObjects)) :
          unit' = [fn |-> "detect_business_intent", outcome |-> o,
                   ret |-> detect_business_intent(o)]
    /\ UNCHANGED <<tickets, agents, env, idx, pc, result, results, calls, alerts, outputs>>

UnitSendGuardianAlert ==
    /\ pc = "unit" /\ unit = NoUnit
    /\ \E guardian_result \in GuardianRecords, kam_email \in BOOLEAN, send \in Sends :
          unit' = [fn |-> "send_guardian_alert", record |-> guardian_result,
                   configured |-> kam_email, send |-> send,
                   ret |-> send_guardian_alert(BaseTicket(1), guardian_result, kam_email, send)]
    /\ UNCHANGED <<tickets, agents, env, idx, pc, result, results, calls, alerts, outputs>>

UnitSendOpportunityAlert ==
    /\ pc = "unit" /\ unit = NoUnit
    /\ \E opportunity_result \in OpportunityRecords, sales_email \in BOOLEAN, send \in Sends :
          unit' = [fn |-> "send_opportunity_alert", record |-> opportunity_result,
                   configured |-> sales_email, send |-> send,
                   ret |-> send_opportunity_alert(BaseTicket(1), opportunity_result,
                                                  sales_email, send)]
    /\ UNCHANGED <<tickets, agents, env, idx, pc, result, results, calls, alerts, outputs>>

InitUnit ==
    /\ tickets = <<>> /\ agents \in AgentLists
    /\ env = [GUARDIAN_EMAIL |-> TRUE, OPPORTUNITY_EMAIL |-> TRUE]
    /\ idx = 0 /\ pc = "unit" /\ result = EmptyDict /\ results = <<>> /\ calls = <<>>
    /\ unit = NoUnit /\ alerts = <<>> /\ outputs = EmptyDict

NextUnit ==
    \/ UnitClassifyPriority
    \/ UnitRouteToAgent
    \/ UnitAnalyzeChurnRisk
    \/ UnitDetectBusinessIntent
    \/ UnitSendGuardianAlert
    \/ UnitSendOpportunityAlert

SpecUnit == InitUnit /\ [][NextUnit]_vars

(***************************************************************************)
(* main and process_ticket, one step per call to an external service.      *)
(***************************************************************************)
\* one call to an external service: for which ticket, to which service, by which stage,
\* and whether the call raised
Call(ticket_id, svc, stage, failed) ==
    [ticket |-> ticket_id, svc |-> svc, stage |-> stage, failed |-> failed]

\* one invocation of an alert function: for which ticket, which alert, whether it raised,
\* and the boolean it returned
Alert(ticket_id, kind, r) ==
    [ticket |-> ticket_id, kind |-> kind, raised |-> r.raised, val |-> r.val]

Ticket == tickets[idx]

\* faulty variant: the opportunity check is made before the guardian check
next_step_opportunity_first(step) ==
    CASE step = "priority" -> "route"
      [] step = "route" -> "opportunity"
      [] step = "opportunity" -> "guardian"
      [] step = "guardian" -> "draft"
      [] step = "draft" -> "return"

\* process_ticket: Step 1 .. Step 5, then return result
next_step(step) ==
    CASE step = "priority" -> "route"
      [] step = "route" -> "guardian"
      [] step = "guardian" -> "opportunity"
      [] step = "opportunity" -> "draft"
      [] step = "draft" -> "return"

\* for idx, ticket in tickets_df.iterrows(): process_ticket starts, copying the ticket fields
BeginTicket ==
    /\ pc = "loop" /\ idx < Len(tickets)
    /\ idx' = idx + 1
    /\ result' = [k \in {"ticket_id", "customer_name", "subject", "description",
                         "channel", "mrr", "timestamp"} |-> tickets[idx + 1][k]]
    /\ pc' = "priority"
    /\ UNCHANGED <<tickets, agents, env, results, calls, unit, alerts, outputs>>

\* faulty variant: a failed priority call is made again
PriorityStage_retrying(answers) ==
    /\ pc = "priority"
    /\ \E o \in Outcomes(answers) :
          /\ calls' = Append(calls, Call(Ticket.ticket_id, "classifier", "priority", o.raise))
          /\ IF o.raise
             THEN pc' = "priority" /\ UNCHANGED result
             ELSE /\ pc' = next_step("priority")
                  /\ result' = Put(result, "assigned_priority", classify_priority(Ticket, o))
    /\ UNCHANGED <<tickets, agents, env, idx, results, unit, alerts, outputs>>

\* Step 1: Classify priority
PriorityStage(answers) ==
    /\ pc = "priority"
    /\ \E o \in Outcomes(answers) :
          /\ result' = Put(result, "assigned_priority", classify_priority(Ticket, o))
          /\ calls' = Append(calls, Call(Ticket.ticket_id, "classifier", "priority", o.raise))
    /\ pc' = next_step("priority")
    /\ UNCHANGED <<tickets, agents, env, idx, results, unit, alerts, outputs>>

\* Step 2: Route to agent
RouteStage(answers) ==
    /\ pc = "route"
    /\ \E o \in Outcomes(answers) :
          /\ result' = Put(result, "assigned_agent", route_to_agent(Ticket, agents, o))
          /\ calls' = Append(calls, Call(Ticket.ticket_id, "classifier", "route", o.raise))
    /\ pc' = next_step("route")
    /\ UNCHANGED <<tickets, agents, env, idx, results, unit, alerts, outputs>>

\* Step 3: Guardian check
GuardianStage(answers) ==
    /\ pc = "guardian"
    /\ \E o \in Outcomes(answers) :
          LET guardian_result == analyze_churn_risk(o) IN
          /\ result' = Put(result, "guardian", guardian_result)
          /\ pc' = IF guardian_result["is_high_risk"].b THEN "guardian_alert"
                   ELSE next_step("guardian")
          /\ calls' = Append(calls, Call(Ticket.ticket_id, "classifier", "guardian", o.raise))
    /\ UNCHANGED <<tickets, agents, env, idx, results, unit, alerts, outputs>>

\* faulty variant: the guardian record is replaced by the outcome of the alert
GuardianAlert_overwriting(sends) ==
    /\ pc = "guardian_alert"
    /\ \E send \in sends :
          LET r == send_guardian_alert(Ticket, result["guardian"], env.GUARDIAN_EMAIL, send) IN
          /\ calls' = IF r.called
                      THEN Append(calls, Call(Ticket.ticket_id, "email", "guardian_alert",
                                              send.raise))
                      ELSE calls
          /\ alerts' = Append(alerts, Alert(Ticket.ticket_id, "guardian", r))
          /\ IF r.raised
             THEN pc' = "raised" /\ UNCHANGED result
             ELSE /\ pc' = next_step("guardian")
                  /\ result' = Put(result, "guardian", [email_sent |-> JBool(r.val)])
    /\ UNCHANGED <<tickets, agents, env, idx, results, unit, outputs>>

\* if guardian_result['is_high_risk']: send the alert, record email_sent
GuardianAlert(sends) ==
    /\ pc = "guardian_alert"
    /\ \E send \in sends :
          LET r == send_guardian_alert(Ticket, result["guardian"], env.GUARDIAN_EMAIL, send) IN
          /\ calls' = IF r.called
                      THEN Append(calls, Call(Ticket.ticket_id, "email", "guardian_alert",
                                              send.raise))
                      ELSE calls
          /\ alerts' = Append(alerts, Alert(Ticket.ticket_id, "guardian", r))
          /\ IF r.raised
             THEN pc' = "raised" /\ UNCHANGED result
             ELSE /\ pc' = next_step("guardian")
                  /\ result' = Put(result, "guardian",
                                   Put(result["guardian"], "email_sent", JBool(r.val)))
    /\ UNCHANGED <<tickets, agents, env, idx, results, unit, outputs>>

\* Step 4: Opportunity check; the log line reads opportunity_result['intent_type']
OpportunityStage(answers) ==
    /\ pc = "opportunity"
    /\ \E o \in Outcomes(answers) :
          LET opportunity_result == detect_business_intent(o) IN
          /\ result' = Put(result, "opportunity", opportunity_result)
          /\ pc' = IF ~opportunity_result["has_business_intent"].b
                   THEN next_step("opportunity")
                   ELSE IF "intent_type" \notin DOMAIN opportunity_result THEN "raised"
                   ELSE "opportunity_alert"
          /\ calls' = Append(calls, Call(Ticket.ticket_id, "classifier", "opportunity", o.raise))
    /\ UNCHANGED <<tickets, agents, env, idx, results, unit, alerts, outputs>>

OpportunityAlert(sends) ==
    /\ pc = "opportunity_alert"
    /\ \E send \in sends :
          LET r == send_opportunity_alert(Ticket, result["opportunity"],
                                          env.OPPORTUNITY_EMAIL, send) IN
          /\ calls' = IF r.called
                      THEN Append(calls, Call(Ticket.ticket_id, "email", "opportunity_alert",
                                              send.raise))
                      ELSE calls
          /\ alerts' = Append(alerts, Alert(Ticket.ticket_id, "opportunity", r))
          /\ IF r.raised
             THEN pc' = "raised" /\ UNCHANGED result
             ELSE /\ pc' = next_step("opportunity")
                  /\ result' = Put(result, "opportunity",
                                   Put(result["opportunity"], "email_sent", JBool(r.val)))
    /\ UNCHANGED <<tickets, agents, env, idx, results, unit, outputs>>

\* faulty variant: P1 tickets get a draft too
needs_draft_from_P1(priority) == priority \in {"P1", "P2", "P3"}

\* Step 5: Generate draft response for P2/P3
needs_draft(priority) == priority \in {"P2", "P3"}

DraftStage(answers) ==
    /\ pc = "draft"
    /\ IF needs_draft(result["assigned_priority"])
       THEN \E o \in Outcomes(answers) :
               /\ result' = Put(result, "draft_response",
                                generate_draft_response(Ticket, result["assigned_agent"], o))
               /\ calls' = Append(calls, Call(Ticket.ticket_id, "classifier", "draft", o.raise))
       ELSE UNCHANGED <<result, calls>>
    /\ pc' = next_step("draft")
    /\ UNCHANGED <<tickets, agents, env, idx, results, unit, alerts, outputs>>

\* return result; results.append(result)
ReturnResult ==
    /\ pc = "return"
    /\ results' = Append(results, result)
    /\ pc' = "loop"
    /\ UNCHANGED <<tickets, agents, env, idx, result, calls, unit, alerts, outputs>>

\* the loop over the rows is over
Finish ==
    /\ pc = "loop" /\ idx = Len(tickets)
    /\ pc' = "done"
    /\ UNCHANGED <<tickets, agents, env, idx, result, results, calls, unit, alerts, outputs>>

(***************************************************************************)
(* report_builder.py                                                       *)
(***************************************************************************)
\* truth value of a draft_response: None and the empty text are false
truthy(v) == v.t = "str" /\ v.s # ""

\* str.lower on a priority
lower(priority) ==
    CASE priority = "P0" -> "p0"
      [] priority = "P1" -> "p1"
      [] priority = "P2" -> "p2"
      [] priority = "P3" -> "p3"
      [] priority = "High" -> "high"

\* team_mapping.get(assigned_agent, "integrations-api-team")
team_mapping(assigned_agent) ==
    CASE assigned_agent = "Integrations & API Team" -> "integrations-api-team"
      [] assigned_agent = "Data & Analytics Team" -> "data-analytics-team"
      [] assigned_agent = "Compliance & Operations Team" -> "compliance-operations-team"
      [] OTHER -> "integrations-api-team"

RiskFieldId == 360001
IntentFieldId == 360002

\* faulty variant: a result that carries a draft_response key is solved, whatever it holds
zendesk_action_by_key(ticket) == IF "draft_response" \in DOMAIN ticket THEN "solve" ELSE "assign"

\* action = "solve" if ticket.get('draft_response') else "assign"
zendesk_action(ticket) ==
    IF truthy(Get(ticket, "draft_response", JNull)) THEN "solve" ELSE "assign"

\* the reads with [] that raise KeyError on a missing key
zendesk_call_ok(ticket) ==
    /\ {"assigned_agent", "ticket_id", "assigned_priority", "guardian", "opportunity"}
           \subseteq DOMAIN ticket
    /\ Get(ticket["guardian"], "is_high_risk", JBool(FALSE)).b =>
           "risk_score" \in DOMAIN ticket["guardian"]
    /\ Get(ticket["opportunity"], "has_business_intent", JBool(FALSE)).b =>
           "intent_type" \in DOMAIN ticket["opportunity"]

\* the record built for one result
zendesk_call(ticket) ==
    LET action == zendesk_action(ticket)
        assigned_team == team_mapping(ticket["assigned_agent"])
        high_risk == Get(ticket["guardian"], "is_high_risk", JBool(FALSE)).b
        intent == Get(ticket["opportunity"], "has_business_intent", JBool(FALSE)).b
        base == [id |-> ticket["ticket_id"],
                 status |-> IF action = "solve" THEN "solved" ELSE "open",
                 priority |-> lower(ticket["assigned_priority"]),
                 assignee |-> assigned_team,
                 tags |-> <<assigned_team, lower(ticket["assigned_priority"])>>
                          \o (IF high_risk THEN <<"churn-risk">> ELSE <<>>)
                          \o (IF intent THEN <<"upsell-opportunity">> ELSE <<>>),
                 custom_fields |->
                     (IF high_risk
                      THEN <<[id |-> RiskFieldId, value |-> ticket["guardian"]["risk_score"]]>>
                      ELSE <<>>)
                     \o (IF intent
                         THEN <<[id |-> IntentFieldId,
                                 value |-> ticket["opportunity"]["intent_type"]]>>
                         ELSE <<>>)]
        payload == IF action = "solve"
                   THEN Put(base, "comment",
                            [body |-> ticket["draft_response"], public |-> TRUE])
                   ELSE base
    IN  [ticket_id |-> ticket["ticket_id"], action |-> action,
         api_endpoint |-> <<"PUT /api/v2/tickets/", ticket["ticket_id"], ".json">>,
         api_payload |-> [ticket |-> payload]]

\* one record per result, in order; raises if building one of them raises
generate_zendesk_api_calls(rs) ==
    IF \A i \in 1..Len(rs) : zendesk_call_ok(rs[i])
    THEN [raised |-> FALSE, val |-> [i \in 1..Len(rs) |-> zendesk_call(rs[i])]]
    ELSE [raised |-> TRUE]

\* generate_html_dashboard: the log of Zendesk API calls is built and written first
WriteZendeskLog ==
    /\ pc = "done"
    /\ LET zendesk_calls == generate_zendesk_api_calls(results) IN
       IF zendesk_calls.raised
       THEN pc' = "report_raised" /\ UNCHANGED outputs
       ELSE pc' = "dashboard" /\ outputs' = Put(outputs, "zendesk_api_calls", zendesk_calls.val)
    /\ UNCHANGED <<tickets, agents, env, idx, result, results, calls, unit, alerts>>

\* how many results satisfy P
Count(rs, P(_)) == Cardinality({i \in 1..Len(rs) : P(rs[i])})

is_high_risk(r) == Get(r["guardian"], "is_high_risk", JBool(FALSE)).b
has_business_intent(r) == Get(r["opportunity"], "has_business_intent", JBool(FALSE)).b

\* generate_html_dashboard, "Calculate metrics": the numbers shown in the summary cards
dashboard_metrics(rs) ==
    [total |-> Len(rs),
     guardian_alerts |-> Count(rs, is_high_risk),
     opportunity_alerts |-> Count(rs, has_business_intent),
     auto_resolved |-> Count(rs, LAMBDA r : truthy(Get(r, "draft_response", JNull)))]

\* guardian_log and opportunity_log read these keys of a flagged result with []
alert_logs_ok(rs) ==
    \A i \in 1..Len(rs) :
        /\ is_high_risk(rs[i]) => {"risk_score", "evidence"} \subseteq DOMAIN rs[i]["guardian"]
        /\ has_business_intent(rs[i]) =>
              {"intent_type", "confidence", "evidence"} \subseteq DOMAIN rs[i]["opportunity"]

\* the summary cards divide by total
summary_cards_ok(rs) == Len(rs) # 0

\* generate_opportunity_section calls intent_type.replace on every flagged result
opportunity_section_ok(rs) ==
    \A i \in 1..Len(rs) :
        has_business_intent(rs[i]) => rs[i]["opportunity"]["intent_type"].t = "str"

\* generate_html_dashboard after the Zendesk log: the two alert logs, then the page
WriteDashboard ==
    /\ pc = "dashboard"
    /\ IF alert_logs_ok(results) /\ summary_cards_ok(results) /\ opportunity_section_ok(results)
       THEN pc' = "metrics" /\ outputs' = Put(outputs, "dashboard", dashboard_metrics(results))
       ELSE pc' = "report_raised" /\ UNCHANGED outputs
    /\ UNCHANGED <<tickets, agents, env, idx, result, results, calls, unit, alerts>>

\* f"{(auto_resolved/total*100):.1f}%": tenths of a percent, to the nearest
rate(part, total) == (2000 * part + total) \div (2 * total)

\* generate_metrics: raises ZeroDivisionError on an empty list
generate_metrics(rs) ==
    IF Len(rs) = 0 THEN [raised |-> TRUE]
    ELSE LET auto_resolved == Count(rs, LAMBDA r : Get(r, "draft_response", JNull) # JNull) IN
         [raised |-> FALSE,
          val |-> [total_tickets |-> Len(rs),
                   guardian_alerts |-> Count(rs, is_high_risk),
                   opportunity_alerts |-> Count(rs, has_business_intent),
                   auto_resolved |-> auto_resolved,
                   auto_resolved_rate |-> rate(auto_resolved, Len(rs))]]

\* main: triage_results.json is dumped, then the metrics summary is computed and written
WriteMetrics ==
    /\ pc = "metrics"
    /\ LET metrics == generate_metrics(results) IN
       IF metrics.raised
       THEN pc' = "report_raised" /\ UNCHANGED outputs
       ELSE pc' = "finished" /\ outputs' = Put(outputs, "metrics", metrics.val)
    /\ UNCHANGED <<tickets, agents, env, idx, result, results, calls, unit, alerts>>

(***************************************************************************)
(* Spec: one run of main over a file of at most one row, every stage       *)
(* answered in every way below.  (The results of a row do not influence    *)
(* the processing of the next one; process_ticket reads only its ticket.)  *)
(***************************************************************************)
HighRiskJson ==
    Obj(<<Member("risk_score", JInt(8)), Member("is_high_risk", JBool(TRUE)),
          Member("sentiment", JStr("angry")), Member("evidence", JStr("third incident")),
          Member("reasoning", JStr("repeated issues"))>>)
HighRiskBareJson == Obj(<<Member("risk_score", JInt(9)), Member("is_high_risk", JBool(TRUE))>>)
LowRiskJson ==
    Obj(<<Member("risk_score", JInt(3)), Member("is_high_risk", JBool(TRUE)),
          Member("sentiment", JStr("angry")), Member("evidence", JStr("third incident")),
          Member("reasoning", JStr("repeated issues"))>>)

IntentJson ==
    Obj(<<Member("has_business_intent", JBool(TRUE)), Member("intent_type", JStr("upgrade")),
          Member("confidence", JInt(8)), Member("evidence", JStr("third incident")),
          Member("reasoning", JStr("repeated issues"))>>)
IntentNoTypeJson ==
    Obj(<<Member("has_business_intent", JBool(TRUE)), Member("confidence", JInt(9)),
          Member("evidence", JStr("third incident")), Member("reasoning", JStr("repeated issues"))>>)
IntentBareJson == Obj(<<Member("intent_type", JNull), Member("confidence", JInt(6))>>)
IntentNullTypeJson ==
    Obj(<<Member("has_business_intent", JBool(TRUE)), Member("intent_type", JNull),
          Member("confidence", JInt(7)), Member("evidence", JStr("third incident")),
          Member("reasoning", JStr("repeated issues"))>>)
NoIntentJson ==
    Obj(<<Member("has_business_intent", JBool(TRUE)), Member("intent_type", JStr("upgrade")),
          Member("confidence", JInt(2)), Member("evidence", JStr("third incident")),
          Member("reasoning", JStr("repeated issues"))>>)

PriorityAnswers == {<<Word("P0")>>, <<Word("P1")>>, <<WS, Word("P3"), WS>>, <<Word("Urgent")>>}
RouteAnswers == {<<Word(TeamNames[2]), WS>>, <<Word("Nexus")>>}
GuardianAnswers ==
    {<<Word("Sorry")>>, FencedJson(HighRiskJson), HighRiskBareJson, LowRiskJson}
OpportunityAnswers ==
    {<<Word("Sorry")>>, FencedJson(IntentJson), IntentNoTypeJson, IntentBareJson,
     IntentNullTypeJson, NoIntentJson}
DraftAnswers == {<<>>, <<WS, Word("Hello Acme, thanks for reaching out."), WS>>}

Init ==
    /\ tickets \in {<<>>} \cup {<<t>> : t \in TicketRows(1)}
    /\ agents = AgentsJson
    /\ env \in Envs
    /\ idx = 0 /\ pc = "loop" /\ result = EmptyDict /\ results = <<>> /\ calls = <<>>
    /\ unit = NoUnit /\ alerts = <<>> /\ outputs = EmptyDict

Next ==
    \/ BeginTicket
    \/ PriorityStage(PriorityAnswers)
    \/ RouteStage(RouteAnswers)
    \/ GuardianStage(GuardianAnswers)
    \/ GuardianAlert(Sends)
    \/ OpportunityStage(OpportunityAnswers)
    \/ OpportunityAlert(Sends)
    \/ DraftStage(DraftAnswers)
    \/ ReturnResult
    \/ Finish
    \/ WriteZendeskLog
    \/ WriteDashboard
    \/ WriteMetrics

Spec == Init /\ [][Next]_vars

(***************************************************************************)
(* SpecBatch: one run of main over a file of up to MaxTickets rows, every  *)
(* classifier call raising or answered (the priority call always raising,  *)
(* so that every ticket is P2 and gets a draft call; the opportunity call  *)
(* also answered without intent_type), every email accepted.               *)
(***************************************************************************)
BatchFiles == {[i \in 1..n |-> BaseTicket(i)] : n \in 0..MaxTickets}
BatchPriorityAnswers == {}
BatchRouteAnswers == {<<Word(TeamNames[2])>>}
BatchGuardianAnswers == {HighRiskJson}
BatchOpportunityAnswers == {IntentJson, IntentNoTypeJson}
BatchSends == {SendReturns(202)}

InitBatch ==
    /\ tickets \in BatchFiles
    /\ agents = AgentsJson
    /\ env = [GUARDIAN_EMAIL |-> TRUE, OPPORTUNITY_EMAIL |-> TRUE]
    /\ idx = 0 /\ pc = "loop" /\ result = EmptyDict /\ results = <<>> /\ calls = <<>>
    /\ unit = NoUnit /\ alerts = <<>> /\ outputs = EmptyDict

NextBatch ==
    \/ BeginTicket
    \/ PriorityStage(BatchPriorityAnswers)
    \/ RouteStage(BatchRouteAnswers)
    \/ GuardianStage(BatchGuardianAnswers)
    \/ GuardianAlert(BatchSends)
    \/ OpportunityStage(BatchOpportunityAnswers)
    \/ OpportunityAlert(BatchSends)
    \/ DraftStage(DraftAnswers)
    \/ ReturnResult
    \/ Finish
    \/ WriteZendeskLog
    \/ WriteDashboard
    \/ WriteMetrics

SpecBatch == InitBatch /\ [][NextBatch]_vars

(***************************************************************************)
(* Properties.                                                             *)
(***************************************************************************)
Range(q) == {q[i] : i \in 1..Len(q)}
Has(d, k) == k \in DOMAIN d
\* the value under key k is the integer n / a boolean b / the string str
IsInt(d, k, n) == Has(d, k) /\ d[k] = JInt(n)
IsBool(d, k, b) == Has(d, k) /\ d[k] = JBool(b)
IsStr(d, k, str) == Has(d, k) /\ d[k] = JStr(str)
\* the value under key k is an integer of at least n
IntAtLeast(d, k, n) == Has(d, k) /\ d[k].t = "int" /\ d[k].n >= n
\* every result record there is: the one being built and the ones returned
Returned(P(_)) == \A i \in 1..Len(results) : P(results[i])
Unit(fn) == unit.fn = fn
Answered == ~unit.outcome.raise
\* the response mentions the member "k": v
Mentions(text, k, v) == \E i \in 1..Len(text) : text[i] = Member(k, v)

\* C1: the assigned_priority written into a result is one of P0, P1, P2, P3,
\* whatever the classifier did and whatever the ticket's actual_priority holds.
C1_AssignedPriorityIsALevel ==
    Has(result, "assigned_priority") => result["assigned_priority"] \in {"P0", "P1", "P2", "P3"}

\* C2: the record analyze_churn_risk returns has is_high_risk true exactly when its
\* risk_score is at least 7, for every response and for a raised exception.
C2_HighRiskIffScoreAtLeast7 ==
    Unit("analyze_churn_risk") =>
        /\ Has(unit.ret, "is_high_risk")
        /\ unit.ret["is_high_risk"].t = "bool"
        /\ unit.ret["is_high_risk"].b <=> IntAtLeast(unit.ret, "risk_score", 7)

\* the response claims high risk with a score of 3, and the record says not high risk
C2_Witness ==
    /\ Unit("analyze_churn_risk") /\ Answered
    /\ Mentions(unit.outcome.text, "is_high_risk", JBool(TRUE))
    /\ IsInt(unit.ret, "risk_score", 3)
    /\ IsBool(unit.ret, "is_high_risk", FALSE)

\* C3: the record detect_business_intent returns has has_business_intent true exactly
\* when its confidence is at least 6, for every response and for a raised exception.
C3_IntentIffConfidenceAtLeast6 ==
    Unit("detect_business_intent") =>
        /\ Has(unit.ret, "has_business_intent")
        /\ unit.ret["has_business_intent"].t = "bool"
        /\ unit.ret["has_business_intent"].b <=> IntAtLeast(unit.ret, "confidence", 6)

\* the response denies business intent with a confidence of 6, and the record has it
C3_Witness ==
    /\ Unit("detect_business_intent") /\ Answered
    /\ Mentions(unit.outcome.text, "has_business_intent", JBool(FALSE))
    /\ IsInt(unit.ret, "confidence", 6)
    /\ IsBool(unit.ret, "has_business_intent", TRUE)

DraftCalled(id) == \E c \in Range(calls) : c.ticket = id /\ c.stage = "draft"
DraftRule(r) ==
    /\ Has(r, "draft_response") => r["assigned_priority"] \in {"P2", "P3"}
    /\ Has(r, "assigned_priority") /\ r["assigned_priority"] \in {"P0", "P1"} =>
          ~Has(r, "draft_response") /\ ~DraftCalled(r["ticket_id"])

\* C4: a result carries a draft_response only if its assigned_priority is P2 or P3;
\* for P0 and P1 the draft responder is not called and the result has no draft_response.
C4_DraftOnlyForP2P3 == DraftRule(result) /\ Returned(DraftRule)

\* a result with priority P0 or P1 was returned, without a draft_response
C4_Witness ==
    /\ pc = "done" /\ Len(results) = 1
    /\ results[1]["assigned_priority"] \in {"P0", "P1"}
    /\ ~Has(results[1], "draft_response")

\* C5: process_ticket never raises, and after the loop the results list holds one
\* record per input ticket, in input order.
C5_EveryTicketYieldsARecord ==
    /\ pc # "raised"
    /\ pc = "done" =>
          /\ Len(results) = Len(tickets)
          /\ \A i \in 1..Len(tickets) : results[i]["ticket_id"] = tickets[i]["ticket_id"]

IsTrimmedName(text, name) ==
    \E i \in 1..Len(text) :
        text[i] = Word(name) /\ \A j \in 1..Len(text) : j # i => text[j] = WS
ConfiguredNames == {agents[i].name : i \in 1..Len(agents)}

\* C7: route_to_agent returns the answer only when, trimmed, it is exactly a configured
\* team name; for any other answer and for an exception it returns the default team.
C7_RouteValidatesOrDefaults ==
    Unit("route_to_agent") =>
        IF Answered /\ \E name \in ConfiguredNames : IsTrimmedName(unit.outcome.text, name)
        THEN IsTrimmedName(unit.outcome.text, unit.ret)
        ELSE unit.ret = "Integrations & API Team"

\* a configured name other than the default, surrounded by whitespace, is returned
C7_Witness ==
    /\ Unit("route_to_agent") /\ Answered
    /\ unit.outcome.text = <<WS, Word("Data & Analytics Team"), WS>>
    /\ unit.ret = "Data & Analytics Team"

\* C8: a Guardian response that does not parse as a JSON object after fence stripping
\* gives exactly the parse-failure fallback, never the zeroed exception fallback.
C8_NonObjectGivesParseFallback ==
    Unit("analyze_churn_risk") /\ Answered =>
        LET parsed == json_loads(strip_code_fence(unit.outcome.text)) IN
        parsed.kind # "object" =>
            /\ IsInt(unit.ret, "risk_score", 5)
            /\ IsBool(unit.ret, "is_high_risk", FALSE)
            /\ IsStr(unit.ret, "sentiment", "neutral")
            /\ IsStr(unit.ret, "evidence", "")
            /\ parsed.kind = "error" =>
                  IsStr(unit.ret, "reasoning", "JSON parse error: " \o parsed.msg)

FailedCall(id, stage) ==
    \E c \in Range(calls) : c.ticket = id /\ c.stage = stage /\ c.failed
Alerted(id, stage) ==
    \E c \in Range(calls) : c.ticket = id /\ c.stage = stage /\ c.svc = "email"
ZeroedRule(r) ==
    /\ Has(r, "ticket_id") /\ FailedCall(r["ticket_id"], "guardian") =>
          /\ Has(r, "guardian")
          /\ IsInt(r["guardian"], "risk_score", 0)
          /\ IsBool(r["guardian"], "is_high_risk", FALSE)
          /\ IsStr(r["guardian"], "sentiment", "neutral")
          /\ IsStr(r["guardian"], "evidence", "")
          /\ ~Has(r["guardian"], "email_sent")
          /\ ~Alerted(r["ticket_id"], "guardian_alert")
    /\ Has(r, "ticket_id") /\ FailedCall(r["ticket_id"], "opportunity") =>
          /\ Has(r, "opportunity")
          /\ IsBool(r["opportunity"], "has_business_intent", FALSE)
          /\ Has(r["opportunity"], "intent_type") /\ r["opportunity"]["intent_type"] = JNull
          /\ IsInt(r["opportunity"], "confidence", 0)
          /\ IsStr(r["opportunity"], "evidence", "")
          /\ ~Has(r["opportunity"], "email_sent")
          /\ ~Alerted(r["ticket_id"], "opportunity_alert")

\* C9: when the service call raises, analyze_churn_risk and detect_business_intent return
\* their zeroed records, processing goes on, and no alert is dispatched for that stage.
C9_ExceptionGivesZeroedAndNoAlert ==
    /\ ZeroedRule(result) /\ Returned(ZeroedRule)
    /\ calls # <<>> =>
          LET last == calls[Len(calls)] IN
          last.failed /\ last.stage \in {"guardian", "opportunity"} => pc # "raised"

\* both analysis calls raised for a ticket whose result was returned
C9_Witness ==
    /\ pc = "done" /\ Len(results) = 1
    /\ FailedCall(results[1]["ticket_id"], "guardian")
    /\ FailedCall(results[1]["ticket_id"], "opportunity")

\* C10: a JSON object text gives the same record fenced (with or without the json tag)
\* as unfenced, from analyze_churn_risk and from detect_business_intent.
C10_FencedParsesLikeUnfenced ==
    /\ Unit("analyze_churn_risk") /\ Answered =>
          \A J \in GuardianObjects :
              unit.outcome.text \in {Fenced(J), FencedJson(J)} =>
                  unit.ret = analyze_churn_risk(Returns(Unfenced(J)))
    /\ Unit("detect_business_intent") /\ Answered =>
          \A J \in OpportunityObjects :
              unit.outcome.text \in {Fenced(J), FencedJson(J)} =>
                  unit.ret = detect_business_intent(Returns(Unfenced(J)))
SentAlert == Unit("send_guardian_alert") \/ Unit("send_opportunity_alert")

\* C11: send_guardian_alert and send_opportunity_alert never raise to their caller,
\* whatever the analysis record (one lacking sentiment, evidence or reasoning included)
\* and whatever the email service does, and return true only when the email service
\* answered 200 or 202.
C11_AlertsNeverRaise ==
    SentAlert =>
        /\ ~unit.ret.raised
        /\ unit.ret.val \in BOOLEAN
        /\ unit.ret.val => (~unit.send.raise /\ unit.send.status_code \in {200, 202})

\* the invocations of one alert function for one ticket
AlertsFor(id, kind) == {i \in 1..Len(alerts) : alerts[i].ticket = id /\ alerts[i].kind = kind}

\* the alert of one kind is dispatched iff the flag is set, at most once, and email_sent
\* is there iff it was, holding the boolean the alert function returned
AlertRule(r, kind, flag) ==
    LET a == AlertsFor(r["ticket_id"], kind) IN
    /\ Cardinality(a) <= 1
    /\ (a # {}) <=> r[kind][flag].b
    /\ Has(r[kind], "email_sent") <=> (a # {})
    /\ \A i \in a : ~alerts[i].raised /\ r[kind]["email_sent"] = JBool(alerts[i].val)

\* C12: within process_ticket the guardian alert is dispatched iff guardian.is_high_risk
\* is true and the opportunity alert iff opportunity.has_business_intent is true, each at
\* most once per ticket; email_sent is in the sub-record iff that alert was attempted and
\* then holds the boolean the alert function returned.
C12_AlertIffFlagged ==
    /\ (Has(result, "guardian") /\ pc # "guardian_alert")
           => AlertRule(result, "guardian", "is_high_risk")
    /\ (Has(result, "opportunity") /\ pc # "opportunity_alert")
           => AlertRule(result, "opportunity", "has_business_intent")

\* every classifier call made for the ticket raised
AllClassifierCallsFailed(id) ==
    \A c \in Range(calls) : c.ticket = id /\ c.svc = "classifier" => c.failed
NoDraft(r) == ~Has(r, "draft_response") \/ r["draft_response"] = JNull
\* the defaults of a result other than its priority
SafeDefaults(r) ==
    /\ r["assigned_agent"] = DefaultTeam
    /\ IsInt(r["guardian"], "risk_score", 0) /\ IsBool(r["guardian"], "is_high_risk", FALSE)
    /\ IsInt(r["opportunity"], "confidence", 0)
    /\ IsBool(r["opportunity"], "has_business_intent", FALSE)
    /\ NoDraft(r)
\* process_ticket did not raise while every classifier call of its ticket raised
AllFailedStillReturns ==
    idx > 0 /\ AllClassifierCallsFailed(Ticket.ticket_id) => pc # "raised"

\* C13 (as stated): a ticket for which every classifier call raises still yields a
\* result, with assigned_priority P2, the default team, guardian risk_score 0 and
\* is_high_risk false, opportunity confidence 0 and has_business_intent false and no
\* draft response; also for a ticket that carries an externally supplied priority.
C13_AllFailedGivesP2 ==
    /\ AllFailedStillReturns
    /\ \A i \in 1..Len(results) :
          AllClassifierCallsFailed(results[i]["ticket_id"]) =>
              results[i]["assigned_priority"] = "P2" /\ SafeDefaults(results[i])

\* C13 (amended): a ticket for which every classifier call raises still yields a
\* result, with assigned_priority the ticket's externally supplied priority if it
\* carries one and P2 otherwise, and the other defaults as stated.
C13_AllFailedGivesDefaults ==
    /\ AllFailedStillReturns
    /\ \A i \in 1..Len(results) :
          AllClassifierCallsFailed(results[i]["ticket_id"]) =>
              /\ results[i]["assigned_priority"] =
                     IF Has(tickets[i], "actual_priority")
                     THEN tickets[i]["actual_priority"] ELSE "P2"
              /\ SafeDefaults(results[i])

C13_Witness ==
    /\ pc = "done" /\ Len(results) = 1
    /\ AllClassifierCallsFailed(results[1]["ticket_id"])
    /\ Has(tickets[1], "actual_priority") /\ tickets[1]["actual_priority"] = "P0"
    /\ results[1]["assigned_priority"] = "P0"

EarlierFields == {"assigned_priority", "assigned_agent", "guardian", "opportunity"}
\* the step made a call and that call raised
LastCallFailed == Len(calls') = Len(calls) + 1 /\ calls'[Len(calls')].failed

\* C14: when the classifier fails inside generate_draft_response for a P2 or P3 ticket,
\* the function returns None instead of raising, process_ticket still returns the
\* result, and the fields written by the earlier stages are unchanged.
C14_DraftFailureKeepsResult ==
    [][/\ pc = "draft" =>
            /\ pc' = "return"
            /\ \A k \in EarlierFields : Has(result', k) /\ result'[k] = result[k]
            /\ LastCallFailed =>
                   Has(result', "draft_response") /\ result'["draft_response"] = JNull
       /\ pc = "return" => results' = Append(results, result)]_vars

C14_Witness ==
    /\ pc = "done" /\ Len(results) = 1
    /\ results[1]["assigned_priority"] \in {"P2", "P3"}
    /\ FailedCall(results[1]["ticket_id"], "draft")
    /\ results[1]["draft_response"] = JNull
    /\ \A k \in EarlierFields : Has(results[1], k)

\* a flagged ticket whose alert recipient is not configured: no email call, email_sent
\* false, and the pipeline goes on
UnconfiguredRule(kind, flag, stage, stopped) ==
    /\ ~Alerted(result["ticket_id"], stage)
    /\ (Has(result, kind) /\ result[kind][flag].b /\ pc # stage) =>
          /\ IsBool(result[kind], "email_sent", FALSE)
          /\ pc \notin stopped

\* C15: when the alert recipient address is not configured, send_guardian_alert and
\* send_opportunity_alert return false without calling the email service, so a flagged
\* ticket gets email_sent false and the remaining stages of the pipeline still run.
C15_UnconfiguredGivesFalse ==
    idx > 0 =>
      /\ ~env.GUARDIAN_EMAIL =>
            UnconfiguredRule("guardian", "is_high_risk", "guardian_alert", {})
      /\ ~env.OPPORTUNITY_EMAIL =>
            UnconfiguredRule("opportunity", "has_business_intent", "opportunity_alert",
                             {"raised"})

\* the value under key k is an integer from 0 to 10
IsScore(d, k) == Has(d, k) /\ d[k].t = "int" /\ d[k].n \in 0..10
Sentiments == {JStr("neutral"), JStr("frustrated"), JStr("angry")}
IntentTypes ==
    {JStr("pricing_request"), JStr("upgrade"), JStr("expansion"), JStr("custom_service")}

\* C16: every guardian record has a risk_score that is an integer from 0 to 10 and a
\* sentiment among neutral, frustrated, angry; every opportunity record has a confidence
\* that is an integer from 0 to 10 and an intent_type that is one of the four values or
\* absent; whatever JSON object the classifier returned.
C16_RecordsInRange ==
    /\ Unit("analyze_churn_risk") =>
          /\ IsScore(unit.ret, "risk_score")
          /\ Has(unit.ret, "sentiment") /\ unit.ret["sentiment"] \in Sentiments
    /\ Unit("detect_business_intent") =>
          /\ IsScore(unit.ret, "confidence")
          /\ Has(unit.ret, "intent_type") => unit.ret["intent_type"] \in IntentTypes \cup {JNull}

\* the external calls of process_ticket, in the order of its steps
StageOrder ==
    <<"priority", "route", "guardian", "guardian_alert", "opportunity", "opportunity_alert",
      "draft">>
StageRank(stage) == CHOOSE i \in 1..Len(StageOrder) : StageOrder[i] = stage
\* the row of the file a call was made for
RowOf(c) == CHOOSE i \in 1..Len(tickets) : tickets[i]["ticket_id"] = c.ticket
CallsOf(id) == {c \in Range(calls) : c.ticket = id}

\* C17: for one ticket the external calls occur in the order priority, routing,
\* churn-risk, guardian alert (if any), opportunity, opportunity alert (if any), draft
\* (if any); every call for one ticket occurs before any call for the next ticket.
C17_CallsInOrder ==
    /\ \A i, j \in 1..Len(calls) :
          i < j =>
             \/ RowOf(calls[i]) < RowOf(calls[j])
             \/ /\ RowOf(calls[i]) = RowOf(calls[j])
                /\ StageRank(calls[i].stage) < StageRank(calls[j].stage)
    /\ Returned(LAMBDA r :
          {"priority", "route", "guardian", "opportunity"}
              \subseteq {c.stage : c \in CallsOf(r["ticket_id"])})

C17_Witness ==
    /\ pc = "done" /\ Len(results) = 2
    /\ \A i \in 1..2 :
          {c.stage : c \in CallsOf(results[i]["ticket_id"])} = Range(StageOrder)

\* no external call is made twice for the same ticket by the same stage
NoRepeatedCall ==
    \A i, j \in 1..Len(calls) :
        calls[i].ticket = calls[j].ticket /\ calls[i].stage = calls[j].stage => i = j
\* the step whose call raised wrote the fallback value of its stage
FallbackWritten ==
    LET stage == calls'[Len(calls')].stage
        r == result'
        Sub(k) == IF Has(r, k) THEN r[k] ELSE EmptyDict IN
    /\ stage = "priority" =>
          /\ Has(r, "assigned_priority")
          /\ r["assigned_priority"] =
                 IF Has(Ticket, "actual_priority") THEN Ticket["actual_priority"] ELSE "P2"
    /\ stage = "route" => Has(r, "assigned_agent") /\ r["assigned_agent"] = DefaultTeam
    /\ stage = "guardian" =>
          /\ IsInt(Sub("guardian"), "risk_score", 0)
          /\ IsBool(Sub("guardian"), "is_high_risk", FALSE)
    /\ stage = "opportunity" =>
          /\ IsInt(Sub("opportunity"), "confidence", 0)
          /\ IsBool(Sub("opportunity"), "has_business_intent", FALSE)
    /\ stage = "draft" => Has(r, "draft_response") /\ r["draft_response"] = JNull
    /\ stage = "guardian_alert" => IsBool(Sub("guardian"), "email_sent", FALSE)
    /\ stage = "opportunity_alert" => IsBool(Sub("opportunity"), "email_sent", FALSE)

\* C18: no call is retried: for one ticket each of the five stages makes at most one
\* classifier call and each alert at most one email call, also when the call fails; a
\* failed call is followed directly by the fallback value of its stage.
C18_NoRetries ==
    [][/\ NoRepeatedCall'
       /\ Len(calls') <= Len(calls) + 1
       /\ LastCallFailed => FallbackWritten]_vars

C18_Witness ==
    /\ pc = "done" /\ Len(results) = 1
    /\ \A stage \in {"priority", "route", "guardian_alert", "opportunity_alert", "draft"} :
          FailedCall(results[1]["ticket_id"], stage)
    /\ Len(calls) = Len(StageOrder)

CopiedFields ==
    {"ticket_id", "customer_name", "subject", "description", "channel", "mrr", "timestamp"}
\* the step is the alert of the stage that wrote field k, adding email_sent to it
AddsEmailSent(k) ==
    /\ \/ k = "guardian" /\ pc = "guardian_alert"
       \/ k = "opportunity" /\ pc = "opportunity_alert"
    /\ DOMAIN result'[k] = DOMAIN result[k] \cup {"email_sent"}
    /\ \A f \in DOMAIN result[k] : result'[k][f] = result[k][f]

\* C19: each of assigned_priority, assigned_agent, guardian, opportunity and
\* draft_response is written at most once while a ticket is processed and no later stage
\* changes a field written by an earlier stage (the alert of a stage adds email_sent to
\* the sub-record its stage wrote); the copied ticket fields keep their values and the
\* input ticket record is not modified.
C19_FieldsWrittenOnce ==
    [][/\ tickets' = tickets
       /\ pc # "loop" =>
             \A k \in DOMAIN result :
                 Has(result', k) /\ (result'[k] # result[k] => AddsEmailSent(k))
       /\ pc = "loop" /\ pc' = "priority" =>
             \A k \in CopiedFields : result'[k] = tickets[idx'][k]
       /\ \A i \in 1..Len(results) : Len(results') >= i /\ results'[i] = results[i]]_vars

C19_Witness ==
    /\ pc = "done" /\ Len(results) = 1
    /\ \A k \in CopiedFields : results[1][k] = tickets[1][k]
    /\ Has(results[1]["guardian"], "email_sent")
    /\ Has(results[1]["opportunity"], "email_sent")
    /\ Has(results[1], "draft_response")

\* the result holds a draft response that is not empty
NonEmptyDraft(r) == Has(r, "draft_response") /\ r["draft_response"] \notin {JNull, JStr("")}
\* the record c is the one the claim describes for the result r
ZendeskRule(c, r) ==
    LET p == c.api_payload.ticket IN
    /\ c.ticket_id = r["ticket_id"] /\ p["id"] = r["ticket_id"]
    /\ IF NonEmptyDraft(r)
       THEN /\ c.action = "solve" /\ p["status"] = "solved"
            /\ Has(p, "comment") /\ p["comment"].body = r["draft_response"]
       ELSE /\ c.action = "assign" /\ p["status"] = "open" /\ ~Has(p, "comment")
    /\ ("churn-risk" \in Range(p["tags"])) <=> r["guardian"]["is_high_risk"].b
    /\ (\E f \in Range(p["custom_fields"]) : f.id = RiskFieldId)
          <=> r["guardian"]["is_high_risk"].b
    /\ ("upsell-opportunity" \in Range(p["tags"])) <=> r["opportunity"]["has_business_intent"].b
    /\ (\E f \in Range(p["custom_fields"]) : f.id = IntentFieldId)
          <=> r["opportunity"]["has_business_intent"].b

SolveCalls == Count(outputs["zendesk_api_calls"], LAMBDA c : c.action = "solve")

\* C21: the number of auto-resolved tickets reported by generate_metrics equals the
\* number the dashboard counts as auto-resolved and the number of simulated update calls
\* with action solve, also for a P2/P3 ticket whose draft is absent or an empty text.
C21_AutoResolvedCountsAgree ==
    {"zendesk_api_calls", "dashboard", "metrics"} \subseteq DOMAIN outputs =>
        /\ outputs["metrics"].auto_resolved = outputs["dashboard"].auto_resolved
        /\ outputs["metrics"].auto_resolved = SolveCalls

\* C22: for every configured list of agents and every behaviour of the classifier, the
\* assigned_agent the pipeline writes (the value of route_to_agent) is the name of one
\* of the configured agents, the default path included.
C22_AssignedAgentIsConfigured ==
    Unit("route_to_agent") => unit.ret \in ConfiguredNames

\* C23: report generation completes without raising for every list of results that
\* process_ticket can produce, the empty list and a flagged opportunity without
\* intent_type included: a run whose per-ticket stages all finished writes the
\* update-call log, the dashboard and the metrics summary.
C23_ReportsAlwaysWritten ==
    /\ pc # "report_raised"
    /\ pc = "finished" => {"zendesk_api_calls", "dashboard", "metrics"} \subseteq DOMAIN outputs

====
